---- MODULE Spec2Model ----
(***************************************************************************)
(* A model of the PostHog client of src/src/client.rs: the credential      *)
(* resolution chain of ApiOptions (from_env, from_aws_secret_manager,      *)
(* auto) and the delivery path of Client (capture, capture_batch) over the *)
(* process-wide HYPER_CLIENT cell.                                         *)
(*                                                                         *)
(* Strings are sequences of one-character strings, so that trim and        *)
(* to_lowercase are computed and not assumed.                              *)
(***************************************************************************)
EXTENDS Integers, Sequences, FiniteSets, TLC

\* ------------------------------------------------------------------ bounds

\* Longest environment value / secret string drawn.
MaxLen == 3
\* Longest list handed to capture_batch.
MaxBatch == 2

\* ------------------------------------------------------------------ strings

Whitespace == {" ", "\t"}
Chars == {" ", "\t", "a"}

RECURSIVE StringsUpTo(_)
StringsUpTo(n) ==
    IF n = 0 THEN {<<>>}
    ELSE LET shorter == StringsUpTo(n - 1)
         IN  shorter \cup {Append(s, c) : s \in {x \in shorter : Len(x) = n - 1}, c \in Chars}

Strings == StringsUpTo(MaxLen)

RECURSIVE TrimStart(_)
TrimStart(s) ==
    IF s = <<>> THEN s
    ELSE IF Head(s) \in Whitespace THEN TrimStart(Tail(s)) ELSE s

RECURSIVE TrimEnd(_)
TrimEnd(s) ==
    IF s = <<>> THEN s
    ELSE IF s[Len(s)] \in Whitespace THEN TrimEnd(SubSeq(s, 1, Len(s) - 1)) ELSE s

\* str::trim
Trim(s) == TrimEnd(TrimStart(s))

\* ------------------------------------------------------------------ constants

API_ENDPOINT == <<"h", "t", "t", "p", "s", ":", "/", "/", "a", "p", "p", ".",
                  "p", "o", "s", "t", "h", "o", "g", ".", "c", "o", "m", "/">>

\* ------------------------------------------------------------------ state

VARIABLES
    \* credential resolution
    env,        \* the process environment's POSTHOG_API_KEY
    rop,        \* the resolution operation in progress
    rpc,        \* its position
    envRes,     \* what from_env returned to auto
    fetched,    \* what the secret store's get_secret_value answered
    storeCalls, \* secret-store requests sent by the operation in progress
    rres        \* what the operation returned

rvars == <<env, rop, rpc, envRes, fetched, storeCalls, rres>>

VARIABLES
    \* the process-wide transport client
    cell,       \* HYPER_CLIENT: 0 while unset, else the instance it holds
    permit,     \* the task holding the cell's initialisation permit, 0 when free
    initCount,  \* runs of init_hyper_client so far
    \* one record per task, each running capture or capture_batch on a Client
    pc,         \* the task's position
    kind,       \* "capture" or "batch"
    client,     \* the Client (its ApiOptions) the call is made on
    events,     \* the events handed to the call
    idx,        \* capture_batch's position in the list (1 for capture)
    handle,     \* the transport client the running capture got from the cell
    issued,     \* the HTTP requests the call has issued, in order
    resp,       \* how the latest request resolved
    elapsed,    \* whether the latest request's timeout timer has fired
    capRes,     \* what the latest capture returned
    result      \* what the call returned

cvars == <<cell, permit, initCount, pc, kind, client, events, idx, handle, issued,
           resp, elapsed, capRes, result>>

VARIABLES
    \* an Event under construction and its wire form
    ev,         \* the Event the caller is building
    inserted,   \* the (key, value) pairs inserted into it so far, in order
    wire,       \* the InnerEvent built from it
    json        \* the serialised InnerEvent

evars == <<ev, inserted, wire, json>>

VARIABLES
    \* GoogleSecretManager::get_secret
    gpc,        \* the position of the call
    gname,      \* the secret version name it asked for
    ganswer,    \* what secrets_versions_access answered
    gres        \* what get_secret returned

gvars == <<gpc, gname, ganswer, gres>>

\* the state the credential and delivery operations never touch
xvars == <<evars, gvars>>

vars == <<rvars, cvars, xvars>>

\* ------------------------------------------------------------------ results

Ok(v) == [tag |-> "Ok", val |-> v]
Err(src, cause) == [tag |-> "Err", src |-> src, cause |-> cause]
Panic == [tag |-> "Panic"]
None == [tag |-> "None"]

\* ApiOptions::new
ApiOptionsNew(endpoint, key) == [endpoint |-> endpoint, key |-> key]

\* What std::env::var can see: the variable unset, set to bytes that are not
\* unicode, or set to a string.
EnvUnset == [tag |-> "Unset"]
EnvNotUnicode == [tag |-> "NotUnicode"]
EnvSet(s) == [tag |-> "Set", val |-> s]
EnvValues == {EnvUnset, EnvNotUnicode} \cup {EnvSet(s) : s \in Strings}

\* std::env::var(POSTHOG_ENV)
EnvVar(e) ==
    IF e.tag = "Set" THEN Ok(e.val)
    ELSE IF e.tag = "Unset" THEN Err("env", "NotPresent")
    ELSE Err("env", "NotUnicode")

\* from_env without its check of the key.
FromEnvUnchecked(e) ==
    LET key == EnvVar(e)
    IN  IF key.tag = "Err" THEN key
        ELSE Ok(ApiOptionsNew(API_ENDPOINT, key.val))

\* ApiOptions::from_env
FromEnv(e) ==
    LET key == EnvVar(e)
    IN  IF key.tag = "Err" THEN key
        ELSE IF Trim(key.val) = <<>> THEN Panic
        ELSE Ok(ApiOptionsNew(API_ENDPOINT, key.val))

\* What the secret store answers to get_secret_value: an SDK error, a secret
\* without a secret_string, or a secret_string.
SdkErrors == {"ResourceNotFound", "AccessDenied"}
StoreAnswers ==
    {Err("sdk", c) : c \in SdkErrors} \cup {Ok(None)} \cup {Ok(EnvSet(s)) : s \in Strings}

\* ApiOptions::from_aws_secret_manager, from the answer of get_secret_value on
FromAwsAnswer(a) ==
    IF a.tag = "Err" THEN Err("secret_store", a.cause)
    ELSE IF a.val.tag = "None" THEN Err("secret_store", "NoSecretString")
    ELSE IF Trim(a.val.val) = <<>> THEN Panic
    ELSE Ok(ApiOptionsNew(API_ENDPOINT, a.val.val))

\* ------------------------------------------------------------------ resolution

RIdle == rpc \in {"idle", "done"}

\* A caller evaluates ApiOptions::from_env().
CallFromEnv ==
    /\ RIdle
    /\ rop' = "from_env"
    /\ rres' = FromEnv(env)
    /\ rpc' = "done"
    /\ envRes' = None
    /\ fetched' = None
    /\ storeCalls' = 0
    /\ UNCHANGED <<env, cvars, xvars>>

\* A caller awaits ApiOptions::from_aws_secret_manager(secret): the request to
\* the secret store is sent.
CallFromAws ==
    /\ RIdle
    /\ rop' = "from_aws_secret_manager"
    /\ rpc' = "fetching"
    /\ rres' = None
    /\ envRes' = None
    /\ fetched' = None
    /\ storeCalls' = 1
    /\ UNCHANGED <<env, cvars, xvars>>

\* auto going on to the secret store whatever from_env returned.
AutoFallsThroughAlways(r) == r.tag \in {"Err", "Ok"}

\* auto: whether the result of from_env sends auto on to the secret store.
AutoFallsThrough(r) == r.tag = "Err"

\* auto reporting the first source's error when both sources fail.
AutoResultFirstError(envR, awsR) == IF awsR.tag = "Err" THEN envR ELSE awsR

\* auto: what it returns once the secret store was consulted.
AutoResult(envR, awsR) == awsR

\* A caller awaits ApiOptions::auto(secret): from_env is evaluated, and only
\* its Err arm goes on to the secret store (a panic unwinds through auto).
CallAuto ==
    /\ RIdle
    /\ rop' = "auto"
    /\ envRes' = FromEnv(env)
    /\ fetched' = None
    /\ IF AutoFallsThrough(envRes')
       THEN /\ rpc' = "fetching"
            /\ rres' = None
            /\ storeCalls' = 1
       ELSE /\ rpc' = "done"
            /\ rres' = envRes'
            /\ storeCalls' = 0
    /\ UNCHANGED <<env, cvars, xvars>>

\* The secret store answers the request in flight.
StoreAnswer(a) ==
    /\ rpc = "fetching"
    /\ fetched' = a
    /\ rres' = IF rop = "auto" THEN AutoResult(envRes, FromAwsAnswer(a))
                                ELSE FromAwsAnswer(a)
    /\ rpc' = "done"
    /\ UNCHANGED <<env, rop, envRes, storeCalls, cvars, xvars>>

RStart ==
    /\ rop = "none"
    /\ rpc = "idle"
    /\ envRes = None
    /\ fetched = None
    /\ storeCalls = 0
    /\ rres = None

RInit == env \in EnvValues /\ RStart

RNext ==
    \/ CallFromEnv
    \/ CallFromAws
    \/ CallAuto
    \/ \E a \in StoreAnswers : StoreAnswer(a)

\* ------------------------------------------------------------------ delivery

\* The concurrent tasks calling into the client.
Tasks == {1, 2}

APT_CAPTURE == <<"c", "a", "p", "t", "u", "r", "e", "/">>

UpperCase == <<"A", "B", "E", "N", "S", "T", "V">>
LowerCase == <<"a", "b", "e", "n", "s", "t", "v">>

\* char::to_lowercase, on the letters the event names are written in
Lower(c) ==
    IF \E i \in 1 .. Len(UpperCase) : UpperCase[i] = c
    THEN LowerCase[CHOOSE i \in 1 .. Len(UpperCase) : UpperCase[i] = c]
    ELSE c

\* str::to_lowercase
ToLowercase(s) == [i \in 1 .. Len(s) |-> Lower(s[i])]

\* ------------------------------------------------------------------ events

\* Option<chrono::NaiveDateTime>
Some(v) == [tag |-> "Some", val |-> v]

\* Properties::new; the HashMap is the set of its (key, value) entries.
PropertiesNew(distinct_id) == [distinct_id |-> distinct_id, properties |-> {}]

\* An insertion that keeps the entry a key already has (entry().or_insert()).
HashMapInsertKeepsFirst(m, key, value) ==
    IF \E q \in m : q[1] = key THEN m ELSE m \cup {<<key, value>>}

\* HashMap::insert: the entry of the key, if there is one, is replaced.
HashMapInsert(m, key, value) == {q \in m : q[1] # key} \cup {<<key, value>>}

\* Properties::insert
PropertiesInsert(p, key, value) ==
    [p EXCEPT !.properties = HashMapInsert(@, key, value)]

\* Event::new
EventNew(event, distinct_id) ==
    [event |-> event, properties |-> PropertiesNew(distinct_id), timestamp |-> None]

\* Event::insert_prop
InsertProp(e, key, value) ==
    [e EXCEPT !.properties = PropertiesInsert(@, key, value)]

\* Event::insert_prop_many: the pairs are inserted from the first to the last.
RECURSIVE InsertPropMany(_, _)
InsertPropMany(e, props) ==
    IF props = <<>> THEN e
    ELSE InsertPropMany(InsertProp(e, Head(props)[1], Head(props)[2]), Tail(props))

\* Event::set_timestamp
SetTimestamp(e, timestamp) == [e EXCEPT !.timestamp = Some(timestamp)]

\* The events callers hand in.
TEST_EVENT == <<"T", "E", "S", "T", "_", "E", "V", "E", "N", "T">>
EventNames == {<<"A", "b">>, <<"b">>, TEST_EVENT, <<"e", "v", "e", "n", "t">>}
Events ==
    { EventNew(<<"A", "b">>, "u1"),
      SetTimestamp(InsertProp(EventNew(<<"b">>, "u2"), "k", "a"), 1) }

RECURSIVE SeqsUpTo(_, _)
SeqsUpTo(S, n) ==
    IF n = 0 THEN {<<>>}
    ELSE LET shorter == SeqsUpTo(S, n - 1)
         IN  shorter \cup {Append(s, x) : s \in {y \in shorter : Len(y) = n - 1}, x \in S}

Batches == SeqsUpTo(Events, MaxBatch)

\* The Clients callers hold: Client::new over ApiOptions::new(endpoint, key).
\* An endpoint with whitespace in it is one no URI can be built from.
ClientNew(options) == [options |-> options]
Clients ==
    { ClientNew(ApiOptionsNew(API_ENDPOINT, <<"a">>)),
      ClientNew(ApiOptionsNew(<<" ">>, <<"A", "b">>)) }

\* InnerEvent::new sending the name as the caller wrote it.
InnerEventNewNameKept(event, api_key) ==
    [api_key |-> api_key,
     event |-> event.event,
     properties |-> event.properties,
     timestamp |-> event.timestamp]

\* InnerEvent::new stamping a key kept from an earlier credential.
InnerEventNewStaleKey(event, api_key) ==
    [api_key |-> <<"a">>,
     event |-> ToLowercase(event.event),
     properties |-> event.properties,
     timestamp |-> event.timestamp]

\* InnerEvent::new
InnerEventNew(event, api_key) ==
    [api_key |-> api_key,
     event |-> ToLowercase(event.event),
     properties |-> event.properties,
     timestamp |-> event.timestamp]

\* format!("{}{}", self.options.endpoint, APT_CAPTURE)
Url(c) == c.options.endpoint \o APT_CAPTURE

\* Request::builder().uri(url): fails on a character no URI holds.
UriValid(url) == \A i \in 1 .. Len(url) : url[i] \notin Whitespace

Unit == [tag |-> "Unit"]
NoRequest == [tag |-> "NoRequest"]
Pending == [tag |-> "Pending"]
Response(status) == [tag |-> "Response", status |-> status]
TransportError(cause) == [tag |-> "TransportError", cause |-> cause]

Statuses == {200, 404, 500}
TransportCauses == {"refused"}

\* capture treating an elapsed timer as a completed request.
CaptureResultTimeoutSwallowed(r, timerFired) == Ok(Unit)

\* capture rejecting a response whose status is not a success.
CaptureResultStatusChecked(r, timerFired) ==
    IF r = Pending THEN Err("timeout", "Elapsed")
    ELSE IF r.tag = "Response" /\ r.status >= 400 THEN Err("status", r.status)
    ELSE Ok(Unit)

\* capture: what it returns once the race of the request and
\* the timer is decided. The request is polled first; whatever it resolved to
\* is bound to _response and dropped.
CaptureResult(r, timerFired) ==
    IF r # Pending THEN Ok(Unit)
    ELSE Err("timeout", "Elapsed")

\* capture_batch dropping the error of a capture.
BatchContinuesAlways(r) == r.tag \in {"Ok", "Err"}

\* capture_batch: whether the loop goes on after a capture returned r.
BatchContinues(r) == r.tag = "Ok"

Idle(t) == pc[t] = "idle"

\* Task t awaits client c's capture(e).
CallCapture(t, c, e) ==
    /\ Idle(t)
    /\ kind' = [kind EXCEPT ![t] = "capture"]
    /\ client' = [client EXCEPT ![t] = c]
    /\ events' = [events EXCEPT ![t] = <<e>>]
    /\ idx' = [idx EXCEPT ![t] = 1]
    /\ issued' = [issued EXCEPT ![t] = <<>>]
    /\ resp' = [resp EXCEPT ![t] = NoRequest]
    /\ elapsed' = [elapsed EXCEPT ![t] = FALSE]
    /\ capRes' = [capRes EXCEPT ![t] = None]
    /\ result' = [result EXCEPT ![t] = None]
    /\ handle' = [handle EXCEPT ![t] = 0]
    /\ pc' = [pc EXCEPT ![t] = "get_or_init"]
    /\ UNCHANGED <<cell, permit, initCount, rvars, xvars>>

\* Task t awaits client c's capture_batch(evs): the loop starts on the first
\* event, or ends at once on the empty list.
CallCaptureBatch(t, c, evs) ==
    /\ Idle(t)
    /\ kind' = [kind EXCEPT ![t] = "batch"]
    /\ client' = [client EXCEPT ![t] = c]
    /\ events' = [events EXCEPT ![t] = evs]
    /\ idx' = [idx EXCEPT ![t] = 1]
    /\ issued' = [issued EXCEPT ![t] = <<>>]
    /\ resp' = [resp EXCEPT ![t] = NoRequest]
    /\ elapsed' = [elapsed EXCEPT ![t] = FALSE]
    /\ capRes' = [capRes EXCEPT ![t] = None]
    /\ handle' = [handle EXCEPT ![t] = 0]
    /\ IF evs = <<>>
       THEN /\ result' = [result EXCEPT ![t] = Ok(Unit)]
            /\ pc' = [pc EXCEPT ![t] = "done"]
       ELSE /\ result' = [result EXCEPT ![t] = None]
            /\ pc' = [pc EXCEPT ![t] = "get_or_init"]
    /\ UNCHANGED <<cell, permit, initCount, rvars, xvars>>

\* HYPER_CLIENT.get_or_init, the fast path: a set cell is returned as it is.
GetOrInit(t) ==
    /\ pc[t] = "get_or_init"
    /\ IF cell # 0
       THEN /\ handle' = [handle EXCEPT ![t] = cell]
            /\ pc' = [pc EXCEPT ![t] = "request"]
       ELSE /\ pc' = [pc EXCEPT ![t] = "acquire"]
            /\ UNCHANGED handle
    /\ UNCHANGED <<cell, permit, initCount, kind, client, events, idx, issued,
                   resp, elapsed, capRes, result, rvars, xvars>>

\* get_or_init handing a permit to every waiting task.
PermitAlwaysFree(t) == permit \in {0} \cup Tasks

\* get_or_init, the slow path: whether task t gets the permit to initialise.
PermitFree(t) == permit = 0

\* get_or_init, the slow path: the task waits for the cell's permit; a cell
\* set meanwhile (its semaphore closed) is returned as it is.
AcquirePermit(t) ==
    /\ pc[t] = "acquire"
    /\ IF cell # 0
       THEN /\ handle' = [handle EXCEPT ![t] = cell]
            /\ pc' = [pc EXCEPT ![t] = "request"]
            /\ UNCHANGED permit
       ELSE /\ PermitFree(t)
            /\ permit' = t
            /\ pc' = [pc EXCEPT ![t] = "init"]
            /\ UNCHANGED handle
    /\ UNCHANGED <<cell, initCount, kind, client, events, idx, issued,
                   resp, elapsed, capRes, result, rvars, xvars>>

\* The permit's holder runs init_hyper_client and sets the cell.
InitClient(t) ==
    /\ pc[t] = "init"
    /\ initCount' = initCount + 1
    /\ cell' = initCount + 1
    /\ permit' = 0
    /\ handle' = [handle EXCEPT ![t] = initCount + 1]
    /\ pc' = [pc EXCEPT ![t] = "request"]
    /\ UNCHANGED <<kind, client, events, idx, issued, resp, elapsed, capRes,
                   result, rvars, xvars>>

\* capture_batch ending its loop one event early.
FinishCaptureSkipsLast(t, r) ==
    /\ capRes' = [capRes EXCEPT ![t] = r]
    /\ IF kind[t] = "batch" /\ BatchContinues(r) /\ idx[t] < Len(events[t]) - 1
       THEN /\ idx' = [idx EXCEPT ![t] = idx[t] + 1]
            /\ pc' = [pc EXCEPT ![t] = "get_or_init"]
            /\ UNCHANGED result
       ELSE /\ result' = [result EXCEPT ![t] =
                              IF kind[t] = "batch" /\ BatchContinues(r)
                              THEN Ok(Unit) ELSE r]
            /\ pc' = [pc EXCEPT ![t] = "done"]
            /\ UNCHANGED idx

\* The capture of events[idx] returned r: capture hands r to its caller,
\* capture_batch goes on to the next event or returns.
FinishCapture(t, r) ==
    /\ capRes' = [capRes EXCEPT ![t] = r]
    /\ IF kind[t] = "batch" /\ BatchContinues(r) /\ idx[t] < Len(events[t])
       THEN /\ idx' = [idx EXCEPT ![t] = idx[t] + 1]
            /\ pc' = [pc EXCEPT ![t] = "get_or_init"]
            /\ UNCHANGED result
       ELSE /\ result' = [result EXCEPT ![t] =
                              IF kind[t] = "batch" /\ BatchContinues(r)
                              THEN Ok(Unit) ELSE r]
            /\ pc' = [pc EXCEPT ![t] = "done"]
            /\ UNCHANGED idx

\* capture holding a process-wide lock from the request to its outcome: no
\* request is handed over while another task's is in flight.
SendRequestUnderLock(t) ==
    /\ pc[t] = "request"
    /\ \A u \in Tasks \ {t} : pc[u] # "await"
    /\ IF UriValid(Url(client[t]))
       THEN /\ issued' = [issued EXCEPT ![t] = Append(@,
                    [uri |-> Url(client[t]),
                     body |-> InnerEventNew(events[t][idx[t]], client[t].options.key),
                     via |-> handle[t]])]
            /\ resp' = [resp EXCEPT ![t] = Pending]
            /\ elapsed' = [elapsed EXCEPT ![t] = FALSE]
            /\ pc' = [pc EXCEPT ![t] = "await"]
            /\ UNCHANGED <<capRes, result, idx>>
       ELSE /\ FinishCapture(t, Err("builder", "InvalidUri"))
            /\ UNCHANGED <<issued, resp, elapsed>>
    /\ UNCHANGED <<cell, permit, initCount, kind, client, events, handle, rvars, xvars>>

\* capture builds the payload and the request and hands it to the transport
\* client; a request that cannot be built is capture's error.
SendRequest(t) ==
    /\ pc[t] = "request"
    /\ IF UriValid(Url(client[t]))
       THEN /\ issued' = [issued EXCEPT ![t] = Append(@,
                    [uri |-> Url(client[t]),
                     body |-> InnerEventNew(events[t][idx[t]], client[t].options.key),
                     via |-> handle[t]])]
            /\ resp' = [resp EXCEPT ![t] = Pending]
            /\ elapsed' = [elapsed EXCEPT ![t] = FALSE]
            /\ pc' = [pc EXCEPT ![t] = "await"]
            /\ UNCHANGED <<capRes, result, idx>>
       ELSE /\ FinishCapture(t, Err("builder", "InvalidUri"))
            /\ UNCHANGED <<issued, resp, elapsed>>
    /\ UNCHANGED <<cell, permit, initCount, kind, client, events, handle, rvars, xvars>>

\* The endpoint answers task t's request in flight with some status.
Respond(t, status) ==
    /\ pc[t] = "await"
    /\ resp[t] = Pending
    /\ resp' = [resp EXCEPT ![t] = Response(status)]
    /\ UNCHANGED <<cell, permit, initCount, pc, kind, client, events, idx, handle,
                   issued, elapsed, capRes, result, rvars, xvars>>

\* The transport gives up on task t's request in flight.
TransportFail(t, cause) ==
    /\ pc[t] = "await"
    /\ resp[t] = Pending
    /\ resp' = [resp EXCEPT ![t] = TransportError(cause)]
    /\ UNCHANGED <<cell, permit, initCount, pc, kind, client, events, idx, handle,
                   issued, elapsed, capRes, result, rvars, xvars>>

\* The timer of timeout(self.timeout, future) fires.
TimerFire(t) ==
    /\ pc[t] = "await"
    /\ ~elapsed[t]
    /\ elapsed' = [elapsed EXCEPT ![t] = TRUE]
    /\ UNCHANGED <<cell, permit, initCount, pc, kind, client, events, idx, handle,
                   issued, resp, capRes, result, rvars, xvars>>

\* capture sending the request again when it timed out or the transport failed.
CaptureReturnRetrying(t) ==
    /\ pc[t] = "await"
    /\ resp[t] # Pending \/ elapsed[t]
    /\ IF resp[t].tag = "Response"
       THEN FinishCapture(t, Ok(Unit))
       ELSE /\ pc' = [pc EXCEPT ![t] = "request"]
            /\ UNCHANGED <<capRes, result, idx>>
    /\ elapsed' = [elapsed EXCEPT ![t] = FALSE]
    /\ UNCHANGED <<cell, permit, initCount, kind, client, events, handle, issued,
                   resp, rvars, xvars>>

\* The awaiting capture is woken with the race decided, and returns; the
\* timer is dropped with the Timeout future.
CaptureReturn(t) ==
    /\ pc[t] = "await"
    /\ resp[t] # Pending \/ elapsed[t]
    /\ FinishCapture(t, CaptureResult(resp[t], elapsed[t]))
    /\ elapsed' = [elapsed EXCEPT ![t] = FALSE]
    /\ UNCHANGED <<cell, permit, initCount, kind, client, events, handle, issued,
                   resp, rvars, xvars>>

\* The caller takes the call's result; the task is free for another call.
TakeResult(t) ==
    /\ pc[t] = "done"
    /\ pc' = [pc EXCEPT ![t] = "idle"]
    /\ kind' = [kind EXCEPT ![t] = "none"]
    /\ client' = [client EXCEPT ![t] = ClientNew(ApiOptionsNew(API_ENDPOINT, <<"a">>))]
    /\ events' = [events EXCEPT ![t] = <<>>]
    /\ idx' = [idx EXCEPT ![t] = 1]
    /\ handle' = [handle EXCEPT ![t] = 0]
    /\ issued' = [issued EXCEPT ![t] = <<>>]
    /\ resp' = [resp EXCEPT ![t] = NoRequest]
    /\ capRes' = [capRes EXCEPT ![t] = None]
    /\ result' = [result EXCEPT ![t] = None]
    /\ UNCHANGED <<cell, permit, initCount, elapsed, rvars, xvars>>

CInit ==
    /\ cell = 0
    /\ permit = 0
    /\ initCount = 0
    /\ pc = [t \in Tasks |-> "idle"]
    /\ kind = [t \in Tasks |-> "none"]
    /\ client = [t \in Tasks |-> ClientNew(ApiOptionsNew(API_ENDPOINT, <<"a">>))]
    /\ events = [t \in Tasks |-> <<>>]
    /\ idx = [t \in Tasks |-> 1]
    /\ handle = [t \in Tasks |-> 0]
    /\ issued = [t \in Tasks |-> <<>>]
    /\ resp = [t \in Tasks |-> NoRequest]
    /\ elapsed = [t \in Tasks |-> FALSE]
    /\ capRes = [t \in Tasks |-> None]
    /\ result = [t \in Tasks |-> None]

CNext ==
    \E t \in Tasks :
        \/ \E c \in Clients, e \in Events : CallCapture(t, c, e)
        \/ \E c \in Clients, evs \in Batches : CallCaptureBatch(t, c, evs)
        \/ GetOrInit(t)
        \/ AcquirePermit(t)
        \/ InitClient(t)
        \/ SendRequest(t)
        \/ \E s \in Statuses : Respond(t, s)
        \/ \E c \in TransportCauses : TransportFail(t, c)
        \/ TimerFire(t)
        \/ CaptureReturn(t)
        \/ TakeResult(t)

\* ------------------------------------------------------------------ building and serialising an event

\* Most (key, value) pairs inserted into one Event.
MaxInserts == 3
\* Longest list handed to insert_prop_many.
MaxMany == 2

DistinctIds == {"distinct_id", "u1"}
PropKeys == {"k", "key"}
PropValues == {"a", "b", "value"}
PropPairs == PropKeys \X PropValues
Timestamps == {1}
ApiKeys == {<<"a">>, <<"A", "b">>}

\* JSON values
JsonNull == [json |-> "null"]
JsonString(v) == [json |-> "string", val |-> v]
JsonObject(members) == [json |-> "object", val |-> members]

\* Properties serialised without #[serde(flatten)]: the map nested under its
\* field name.
SerPropertiesNested(p) ==
    { <<"distinct_id", JsonString(p.distinct_id)>>,
      <<"properties", JsonObject({<<q[1], JsonString(q[2])>> : q \in p.properties})>> }

\* #[derive(Serialize)] of Properties: distinct_id, and the map's entries
\* flattened into the same object. The object is the set of its members.
SerProperties(p) ==
    {<<"distinct_id", JsonString(p.distinct_id)>>}
        \cup {<<q[1], JsonString(q[2])>> : q \in p.properties}

\* Option<NaiveDateTime> serialised: null, or the date-time's string.
SerTimestamp(ts) == IF ts = None THEN JsonNull ELSE JsonString(<<"datetime", ts.val>>)

\* serde_json::to_string(&inner_event)
ToJson(inner) ==
    [api_key |-> JsonString(inner.api_key),
     event |-> JsonString(inner.event),
     properties |-> SerProperties(inner.properties),
     timestamp |-> SerTimestamp(inner.timestamp)]

\* A caller builds an Event with Event::new.
EventNewCall(name, distinct_id) ==
    /\ ev' = EventNew(name, distinct_id)
    /\ inserted' = <<>>
    /\ wire' = None
    /\ json' = None
    /\ UNCHANGED <<rvars, cvars, gvars>>

Building == ev # None /\ wire = None

\* The caller calls insert_prop(key, value).
InsertPropCall(key, value) ==
    /\ Building
    /\ Len(inserted) < MaxInserts
    /\ ev' = InsertProp(ev, key, value)
    /\ inserted' = Append(inserted, <<key, value>>)
    /\ UNCHANGED <<wire, json, rvars, cvars, gvars>>

\* The caller calls insert_prop_many(props).
InsertPropManyCall(props) ==
    /\ Building
    /\ Len(inserted) + Len(props) <= MaxInserts
    /\ ev' = InsertPropMany(ev, props)
    /\ inserted' = inserted \o props
    /\ UNCHANGED <<wire, json, rvars, cvars, gvars>>

\* The caller calls set_timestamp(timestamp).
SetTimestampCall(timestamp) ==
    /\ Building
    /\ ev' = SetTimestamp(ev, timestamp)
    /\ UNCHANGED <<inserted, wire, json, rvars, cvars, gvars>>

\* capture, lines 126 and 133: the InnerEvent is built from the event and the
\* client's key, and serialised.
BuildWire(api_key) ==
    /\ Building
    /\ wire' = InnerEventNew(ev, api_key)
    /\ json' = ToJson(InnerEventNew(ev, api_key))
    /\ UNCHANGED <<ev, inserted, rvars, cvars, gvars>>

EStart ==
    /\ ev = None
    /\ inserted = <<>>
    /\ wire = None
    /\ json = None

ENext ==
    \/ \E n \in EventNames, d \in DistinctIds : EventNewCall(n, d)
    \/ \E q \in PropPairs : InsertPropCall(q[1], q[2])
    \/ \E props \in SeqsUpTo(PropPairs, MaxMany) : InsertPropManyCall(props)
    \/ \E ts \in Timestamps : SetTimestampCall(ts)
    \/ \E k \in ApiKeys : BuildWire(k)

\* ------------------------------------------------------------------ GoogleSecretManager

Projects == {"p1", "p2"}
SecretIds == {"s1", "s2"}
Bytes == {0, 1, 255}

\* Vec<u8> values the secret version may hold.
ByteStrings == SeqsUpTo(Bytes, MaxLen)

\* format!("projects/{project}/secrets/{secret}/versions/latest")
SecretName(project, secret) ==
    <<"projects", project, "secrets", secret, "versions", "latest">>

\* What secrets_versions_access(..).doit() answers: an error, or a response
\* whose payload, and whose payload's data, may be missing.
AccessErrors == {"NotFound", "PermissionDenied"}
AccessAnswers ==
    {Err("api", c) : c \in AccessErrors}
        \cup {Ok([payload |-> None])}
        \cup {Ok([payload |-> Some([data |-> None])])}
        \cup {Ok([payload |-> Some([data |-> Some(b)])]) : b \in ByteStrings}

\* get_secret handing back empty bytes for a payload without data.
GetSecretResultDefaultData(a) ==
    IF a.tag = "Err" THEN Err("google", a.cause)
    ELSE IF a.val.payload = None THEN Err("google", "No payload")
    ELSE IF a.val.payload.val.data = None THEN Ok(<<>>)
    ELSE Ok(a.val.payload.val.data.val)

\* get_secret, from the answer of doit() on
GetSecretResult(a) ==
    IF a.tag = "Err" THEN Err("google", a.cause)
    ELSE IF a.val.payload = None THEN Err("google", "No payload")
    ELSE IF a.val.payload.val.data = None THEN Err("google", "No data")
    ELSE Ok(a.val.payload.val.data.val)

\* A caller awaits get_secret(project, secret): the access request is sent.
CallGetSecret(project, secret) ==
    /\ gpc \in {"idle", "done"}
    /\ gpc' = "accessing"
    /\ gname' = SecretName(project, secret)
    /\ ganswer' = None
    /\ gres' = None
    /\ UNCHANGED <<rvars, cvars, evars>>

\* The secret manager answers the access request.
AccessAnswer(a) ==
    /\ gpc = "accessing"
    /\ ganswer' = a
    /\ gres' = GetSecretResult(a)
    /\ gpc' = "done"
    /\ UNCHANGED <<gname, rvars, cvars, evars>>

GStart ==
    /\ gpc = "idle"
    /\ gname = <<>>
    /\ ganswer = None
    /\ gres = None

GNext ==
    \/ \E p \in Projects, sec \in SecretIds : CallGetSecret(p, sec)
    \/ \E a \in AccessAnswers : AccessAnswer(a)

\* ------------------------------------------------------------------ specifications

\* The delivery path, with the environment fixed.
Init == CInit /\ env = EnvUnset /\ RStart /\ EStart /\ GStart
Next == CNext
Spec == Init /\ [][Next]_vars

\* The delivery path under the scheduling the runtime gives: a timer that is
\* armed fires, and a woken task runs.
FairSpec ==
    /\ Spec
    /\ \A t \in Tasks : WF_vars(TimerFire(t)) /\ WF_vars(CaptureReturn(t))

\* Credential resolution, with no capture running.
ResolveInit == RInit /\ CInit /\ EStart /\ GStart
ResolveNext == RNext
ResolveSpec == ResolveInit /\ [][ResolveNext]_vars

\* Single captures on Clients that hold different keys.
KeyClients ==
    { ClientNew(ApiOptionsNew(API_ENDPOINT, <<"a">>)),
      ClientNew(ApiOptionsNew(API_ENDPOINT, <<"A", "b">>)) }
KeyNext ==
    \E t \in Tasks :
        \/ \E c \in KeyClients, e \in Events : CallCapture(t, c, e)
        \/ GetOrInit(t)
        \/ AcquirePermit(t)
        \/ InitClient(t)
        \/ SendRequest(t)
        \/ \E st \in Statuses : Respond(t, st)
        \/ \E c \in TransportCauses : TransportFail(t, c)
        \/ TimerFire(t)
        \/ CaptureReturn(t)
        \/ TakeResult(t)
KeySpec == Init /\ [][KeyNext]_vars

\* Building and serialising an event, with nothing else running.
EventInit == EStart /\ CInit /\ env = EnvUnset /\ RStart /\ GStart
EventNext == ENext
EventSpec == EventInit /\ [][EventNext]_vars

\* GoogleSecretManager::get_secret, with nothing else running.
GoogleInit == GStart /\ CInit /\ env = EnvUnset /\ RStart /\ EStart
GoogleNext == GNext
GoogleSpec == GoogleInit /\ [][GoogleNext]_vars

\* ------------------------------------------------------------------ claims

TimeoutError == Err("timeout", "Elapsed")

\* The requests task t's call has issued carry its first n events, in order.
IssuedPrefix(t, n) ==
    /\ Len(issued[t]) = n
    /\ \A k \in 1 .. n :
          issued[t][k].body = InnerEventNew(events[t][k], client[t].options.key)

\* C1: as soon as the capture of event i of a capture_batch fails, the batch
\* has returned that capture's error; the events before i were submitted, in
\* list order, and no event after i has been attempted.
C1_BatchStopsAtFirstFailure ==
    \A t \in Tasks :
        (kind[t] = "batch" /\ capRes[t].tag = "Err") =>
            /\ pc[t] = "done"
            /\ result[t] = capRes[t]
            /\ idx[t] \in 1 .. Len(events[t])
            /\ \/ capRes[t].src # "builder" /\ IssuedPrefix(t, idx[t])
               \/ capRes[t].src = "builder" /\ IssuedPrefix(t, idx[t] - 1)

\* C1, its case: one batch of two events failed on its first event, another
\* on its second, after the first was delivered.
C1_Witness ==
    \E t, u \in Tasks :
        /\ kind[t] = "batch" /\ pc[t] = "done" /\ result[t] = TimeoutError
        /\ Len(events[t]) = 2 /\ idx[t] = 1 /\ Len(issued[t]) = 1
        /\ kind[u] = "batch" /\ pc[u] = "done" /\ result[u] = TimeoutError
        /\ Len(events[u]) = 2 /\ idx[u] = 2 /\ Len(issued[u]) = 2
        /\ events[u][1] # events[u][2]

\* C2: a capture whose request ended in a transport failure returns an error
\* wrapping that failure, never success.
C2_TransportErrorReturned ==
    \A t \in Tasks :
        (pc[t] # "await" /\ resp[t].tag = "TransportError") =>
            /\ capRes[t].tag = "Err"
            /\ capRes[t].cause = resp[t].cause

\* C3: a capture whose request is in flight and is never answered eventually
\* returns, and what it returns is the timeout error.
C3_SilentEndpointTimesOut ==
    \A t \in Tasks :
        (pc[t] = "await" /\ resp[t] = Pending)
            ~> \/ resp[t] # Pending
               \/ pc[t] # "await" /\ capRes[t] = TimeoutError

\* C3, its case: a capture returned the timeout error with its request
\* still unanswered.
C3_Witness ==
    \E t \in Tasks :
        /\ kind[t] = "capture" /\ pc[t] = "done"
        /\ resp[t] = Pending /\ result[t] = TimeoutError

\* The environment variable holds a string that is blank after trimming.
EnvBlank == env.tag = "Set" /\ Trim(env.val) = <<>>

\* C4: for a non-empty environment value, from_env and auto return the
\* production endpoint with the trimmed value as key.
C4_EnvKeyTrimmed ==
    (rpc = "done" /\ rop \in {"from_env", "auto"} /\ env.tag = "Set" /\ env.val # <<>>) =>
        rres = Ok(ApiOptionsNew(API_ENDPOINT, Trim(env.val)))

\* C5: auto consults the environment before anything else; it sends a request
\* to the secret store only after from_env returned an error, and when from_env
\* yields a key auto returns it with no request sent.
C5_FallbackShortCircuits ==
    rop = "auto" =>
        /\ envRes = FromEnv(env)
        /\ storeCalls > 0 => envRes.tag = "Err"
        /\ envRes.tag = "Ok" => (storeCalls = 0 /\ rpc = "done" /\ rres = envRes)

\* C5, its case: auto returned the environment's key without a request to the
\* secret store.
C5_Witness ==
    /\ rop = "auto" /\ rpc = "done"
    /\ env.tag = "Set" /\ rres.tag = "Ok" /\ rres.val.key = env.val
    /\ storeCalls = 0

\* C6: with the environment variable unset or blank, auto goes on to the
\* secret store, and a secret that is non-empty after trimming comes back as
\* the key, trimmed.
C6_BlankEnvFallsThrough ==
    (rop = "auto" /\ rpc = "done" /\ (env = EnvUnset \/ EnvBlank)) =>
        /\ storeCalls = 1
        /\ (fetched.tag = "Ok" /\ fetched.val.tag = "Set" /\ Trim(fetched.val.val) # <<>>) =>
              rres = Ok(ApiOptionsNew(API_ENDPOINT, Trim(fetched.val.val)))

\* C7: with the environment variable unset and the secret store's fetch
\* failing, auto returns an error carrying the secret store's failure, not the
\* environment's.
C7_SecondSourceErrorReported ==
    (rop = "auto" /\ rpc = "done" /\ env = EnvUnset /\ fetched.tag = "Err") =>
        rres = Err("secret_store", fetched.cause)

\* C7, its case: auto ended on the secret store's refusal.
C7_Witness ==
    /\ rop = "auto" /\ rpc = "done" /\ env = EnvUnset
    /\ fetched = Err("sdk", "AccessDenied")
    /\ rres = Err("secret_store", "AccessDenied")

\* A credential source handed the operation a string that is blank after
\* trimming.
SourceReturnedBlank ==
    \/ rop \in {"from_env", "auto"} /\ EnvBlank
    \/ fetched.tag = "Ok" /\ fetched.val.tag = "Set" /\ Trim(fetched.val.val) = <<>>

\* C8: a credential source returning a blank string makes the resolution
\* operation return an error to its caller.
C8_BlankKeyIsAnError ==
    (rpc = "done" /\ SourceReturnedBlank) => rres.tag = "Err"

\* C9: init_hyper_client runs at most once; the cell holds that one instance
\* from then on, and every capture past get_or_init, and every request issued,
\* uses it.
C9_TransportClientInitialisedOnce ==
    /\ initCount <= 1
    /\ cell = initCount
    /\ \A t \in Tasks :
          /\ pc[t] \in {"request", "await"} => (handle[t] = 1 /\ cell = 1)
          /\ \A k \in 1 .. Len(issued[t]) : issued[t][k].via = 1 /\ cell = 1

\* C9, its case: two first callers both found the cell unset; one has
\* initialised it and issued its request, the other is still waiting for the
\* permit.
C9_Witness ==
    \E t, u \in Tasks :
        /\ pc[t] = "await" /\ issued[t][1].via = 1
        /\ pc[u] = "acquire"

\* C10: a capture whose request got a response returns success, whatever the
\* status.
C10_AnyStatusIsSuccess ==
    \A t \in Tasks :
        (pc[t] # "await" /\ resp[t].tag = "Response") => capRes[t] = Ok(Unit)

\* C10, its case: captures answered 404 and 500 both returned success.
C10_Witness ==
    \E t, u \in Tasks :
        /\ pc[t] = "done" /\ resp[t] = Response(404) /\ result[t] = Ok(Unit)
        /\ pc[u] = "done" /\ resp[u] = Response(500) /\ result[u] = Ok(Unit)

\* C11: a capture issues at most one request: when a capture attempt starts,
\* the call has issued one request for each earlier event and none for this
\* one, and it never holds more requests than attempts; a timed-out or failed
\* request is followed by no second request for the same event.
C11_NoRetry ==
    \A t \in Tasks :
        /\ Len(issued[t]) <= idx[t]
        /\ kind[t] = "capture" => Len(issued[t]) <= 1
        /\ pc[t] \in {"get_or_init", "acquire", "init", "request"} =>
              Len(issued[t]) = idx[t] - 1
        /\ pc[t] = "await" => Len(issued[t]) = idx[t]
        /\ \A k \in 1 .. Len(issued[t]) :
              issued[t][k].body.event = ToLowercase(events[t][k].event)

\* C11, its case: one capture ended on a timeout and another on a transport
\* failure, each with its single request sent.
C11_Witness ==
    \E t, u \in Tasks :
        /\ kind[t] = "capture" /\ pc[t] = "done"
        /\ resp[t] = Pending /\ capRes[t] = TimeoutError /\ Len(issued[t]) = 1
        /\ kind[u] = "capture" /\ pc[u] = "done"
        /\ resp[u].tag = "TransportError" /\ Len(issued[u]) = 1

\* What a call's task holds of its own.
TaskState(t) ==
    <<pc[t], kind[t], client[t], events[t], idx[t], handle[t], issued[t], resp[t],
      elapsed[t], capRes[t], result[t]>>

\* Whatever the other tasks are doing, task t's capture can take its next
\* step: hand over its request, have it answered or failed or timed out, and
\* return once the race is decided.
CaptureNeverBlocked ==
    \A t \in Tasks :
        /\ pc[t] = "request" => ENABLED SendRequest(t)
        /\ (pc[t] = "await" /\ resp[t] = Pending) =>
              /\ \A st \in Statuses : ENABLED Respond(t, st)
              /\ \A c \in TransportCauses : ENABLED TransportFail(t, c)
        /\ (pc[t] = "await" /\ ~elapsed[t]) => ENABLED TimerFire(t)
        /\ (pc[t] = "await" /\ (resp[t] # Pending \/ elapsed[t])) => ENABLED CaptureReturn(t)

\* C12: captures of different tasks are not serialised: a capture past
\* get_or_init is never kept from sending, being answered or returning by
\* another task's capture, and a step of one task's call leaves the other
\* task's call (its request, its outcome, its result) as it was.
C12_CapturesNotSerialised ==
    /\ []CaptureNeverBlocked
    /\ [][\A t, u \in Tasks :
            (t # u /\ TaskState(t)' # TaskState(t)) => TaskState(u)' = TaskState(u)]_vars

\* C12, its case: two captures have their requests in flight at the same
\* time, one already timed out and the other already answered.
C12_Witness ==
    \E t, u \in Tasks :
        /\ t # u
        /\ pc[t] = "await" /\ resp[t] = Pending /\ elapsed[t]
        /\ pc[u] = "await" /\ resp[u] = Response(200) /\ ~elapsed[u]

\* C13: every payload a call has sent carries the key of the Client the call
\* was made on; the Event handed in, and its Properties, have no field for
\* the key.
C13_PayloadCarriesClientKey ==
    \A t \in Tasks :
        /\ \A k \in 1 .. Len(issued[t]) :
              issued[t][k].body.api_key = client[t].options.key
        /\ \A k \in 1 .. Len(events[t]) :
              /\ "api_key" \notin DOMAIN events[t][k]
              /\ "api_key" \notin DOMAIN events[t][k].properties

\* C13, its case: two Clients with different keys each have a payload sent,
\* at the same time.
C13_Witness ==
    \E t, u \in Tasks :
        /\ pc[t] = "await" /\ issued[t][1].body.api_key = <<"a">>
        /\ pc[u] = "await" /\ issued[u][1].body.api_key = <<"A", "b">>

IsUpper(c) == \E i \in 1 .. Len(UpperCase) : UpperCase[i] = c

\* C14: the payload's event is the Event's name in lower case (TEST_EVENT is
\* sent as test_event); its distinct_id, attributes and timestamp are the
\* Event's.
C14_NameLowercasedRestCarriedOver ==
    wire # None =>
        /\ Len(wire.event) = Len(ev.event)
        /\ \A i \in 1 .. Len(wire.event) :
              /\ ~IsUpper(wire.event[i])
              /\ ~IsUpper(ev.event[i]) => wire.event[i] = ev.event[i]
        /\ ev.event = TEST_EVENT =>
              wire.event = <<"t", "e", "s", "t", "_", "e", "v", "e", "n", "t">>
        /\ wire.properties.distinct_id = ev.properties.distinct_id
        /\ wire.properties.properties = ev.properties.properties
        /\ wire.timestamp = ev.timestamp

\* C14, its case: the payload of an Event named TEST_EVENT, with attributes
\* and a timestamp, has been built.
C14_Witness ==
    /\ wire # None
    /\ ev.event = TEST_EVENT
    /\ wire.event = <<"t", "e", "s", "t", "_", "e", "v", "e", "n", "t">>
    /\ Cardinality(ev.properties.properties) = 2
    /\ ev.timestamp = Some(1)

\* The insertions of key k so far, by position.
InsertionsOf(k) == {i \in 1 .. Len(inserted) : inserted[i][1] = k}
LastInsertion(k) == CHOOSE i \in InsertionsOf(k) : \A j \in InsertionsOf(k) : j <= i

\* C15: after any insertions, the attributes hold exactly the keys inserted,
\* each once, with the value of its last insertion (the pairs of
\* insert_prop_many counted in list order); inserting a pair a second time
\* changes nothing.
C15_LastWriteWins ==
    ev # None =>
        LET attrs == ev.properties.properties
        IN  /\ \A k \in PropKeys : (InsertionsOf(k) # {}) <=> (\E q \in attrs : q[1] = k)
            /\ \A q \in attrs :
                  /\ Cardinality({r \in attrs : r[1] = q[1]}) = 1
                  /\ q[2] = inserted[LastInsertion(q[1])][2]
            /\ \A q \in PropPairs :
                  InsertProp(InsertProp(ev, q[1], q[2]), q[1], q[2]) = InsertProp(ev, q[1], q[2])

\* C15, its case: k was inserted with a, then with b, and another key after.
C15_Witness ==
    /\ ev # None
    /\ inserted = <<<<"k", "a">>, <<"k", "b">>, <<"key", "value">>>>
    /\ ev.properties.properties = {<<"k", "b">>, <<"key", "value">>}

UsableOptions(o) ==
    /\ Trim(o.key) # <<>>
    /\ o.endpoint = API_ENDPOINT
    /\ o.endpoint[Len(o.endpoint)] = "/"

\* C17: every ApiOptions a resolution operation has returned, to its caller or
\* from from_env to auto, has a key that is non-empty after trimming and the
\* production endpoint.
C17_ReturnedOptionsUsable ==
    /\ rres.tag = "Ok" => UsableOptions(rres.val)
    /\ envRes.tag = "Ok" => UsableOptions(envRes.val)

\* C17, its case: an operation returned an ApiOptions for a value with
\* whitespace around a non-blank key.
C17_Witness ==
    /\ rpc = "done"
    /\ rop = "from_env"
    /\ env = EnvSet(<<" ", "a", "\t">>)
    /\ rres.tag = "Ok"

\* C18: a capture_batch that returned success has issued one request per
\* event, in list order, the request of an event only once the capture before
\* it had returned; on the empty list it returns success with no request
\* issued and without going to the transport client's cell.
C18_BatchSuccessIssuesEach ==
    \A t \in Tasks :
        kind[t] = "batch" =>
            /\ (pc[t] = "done" /\ result[t] = Ok(Unit)) =>
                  IssuedPrefix(t, Len(events[t]))
            /\ (pc[t] # "done" /\ idx[t] > 1) =>
                  /\ capRes[t] = Ok(Unit)
                  /\ Len(issued[t]) \in {idx[t] - 1, idx[t]}
            /\ events[t] = <<>> =>
                  /\ pc[t] = "done" /\ result[t] = Ok(Unit)
                  /\ issued[t] = <<>> /\ handle[t] = 0 /\ capRes[t] = None

\* C18, its case: a batch of two different events returned success, and an
\* empty batch returned success.
C18_Witness ==
    \E t, u \in Tasks :
        /\ kind[t] = "batch" /\ pc[t] = "done" /\ result[t] = Ok(Unit)
        /\ Len(events[t]) = 2 /\ events[t][1] # events[t][2] /\ Len(issued[t]) = 2
        /\ kind[u] = "batch" /\ pc[u] = "done" /\ result[u] = Ok(Unit)
        /\ events[u] = <<>> /\ handle[u] = 0

\* The access response carries a payload with data.
HasData(a) ==
    /\ a.tag = "Ok"
    /\ a.val.payload # None
    /\ a.val.payload.val.data # None

\* C19: get_secret returns the data bytes of the response as they are when
\* the response has a payload with data, and an error, never bytes, when the
\* access call failed, the payload is missing or the data is missing.
C19_GetSecretBytesOrError ==
    gpc = "done" =>
        /\ HasData(ganswer) => gres = Ok(ganswer.val.payload.val.data.val)
        /\ ~HasData(ganswer) => gres.tag = "Err"

\* C19, its case: the bytes of a secret version came back.
C19_Witness ==
    /\ gpc = "done"
    /\ ganswer = Ok([payload |-> Some([data |-> Some(<<0, 255>>)])])
    /\ gres = Ok(<<0, 255>>)

====
